---- MODULE Spec2Model ----
(***************************************************************************)
(* Model of the orbit simulator: physics/orbital_mechanics.py              *)
(* (OrbitalBody), the main loop of main.py and its time-scale control.     *)
(*                                                                         *)
(* Numbers.  The program computes in IEEE doubles.  The model computes on  *)
(* an integer grid with the same special values: every quantity is an      *)
(* integer of magnitude at most MaxFinite, or PosInf, NegInf or NaN.       *)
(* A result beyond MaxFinite overflows to an infinity, a division rounds   *)
(* to the nearest grid value, and x/0, 0/0, inf-inf, 0*inf give what IEEE  *)
(* arithmetic (numpy, which warns and does not raise) gives.  Positions,   *)
(* velocities, dt, G and EARTH_MASS are in grid units, not SI; time scales *)
(* are in tenths (1.0 is 10).                                              *)
(***************************************************************************)
EXTENDS Integers, Sequences, FiniteSets, TLC

VARIABLES
    sat,              \* the OrbitalBody under test / main()'s satellite
    twin,             \* a second OrbitalBody, same start, other mass
    time_scale,       \* main(): time_scale, in tenths
    velocity_change,  \* main(): velocity_change
    last,             \* history: the last operation, its dt, the body before it
    hist,             \* history: every position the body has had, oldest first
    steps,            \* history: number of operations applied so far
    before,           \* history: the value of last before the last operation
    panel,            \* the ControlPanel: paused, current_time_scale_index
    plast             \* history: the last ControlPanel operation

vars == <<sat, twin, time_scale, velocity_change, last, hist, steps,
          before, panel, plast>>

\* the variables the library and main.py leave alone
others == <<before, panel, plast>>

----------------------------------------------------------------------------
(* Bounds of the model *)

MaxFinite == 1000000
MaxSteps == 3
MaxFrames == 1
LongSteps == 2001

----------------------------------------------------------------------------
(* Floating-point arithmetic on the grid *)

PosInf == MaxFinite + 1
NegInf == 0 - PosInf
NaN == MaxFinite + 2

IsNaN(x) == x = NaN
IsInf(x) == x = PosInf \/ x = NegInf
IsFinite(x) == ~IsNaN(x) /\ ~IsInf(x)

Abs(x) == IF x < 0 THEN 0 - x ELSE x
Sgn(x) == IF x < 0 THEN 0 - 1 ELSE IF x > 0 THEN 1 ELSE 0

\* overflow of an exact result to an infinity
Round(x) == IF x > MaxFinite THEN PosInf ELSE IF x < 0 - MaxFinite THEN NegInf ELSE x

FNeg(a) == IF IsNaN(a) THEN NaN ELSE 0 - a

FAdd(a, b) ==
    IF IsNaN(a) \/ IsNaN(b) THEN NaN
    ELSE IF IsInf(a) THEN (IF IsInf(b) /\ b # a THEN NaN ELSE a)
    ELSE IF IsInf(b) THEN b
    ELSE Round(a + b)

FMul(a, b) ==
    IF IsNaN(a) \/ IsNaN(b) THEN NaN
    ELSE IF IsInf(a) \/ IsInf(b)
         THEN (IF a = 0 \/ b = 0 THEN NaN
               ELSE IF Sgn(a) = Sgn(b) THEN PosInf ELSE NegInf)
    ELSE IF a = 0 \/ b = 0 THEN 0
    ELSE IF Abs(a) > MaxFinite \div Abs(b)
         THEN (IF Sgn(a) = Sgn(b) THEN PosInf ELSE NegInf)
    ELSE a * b

\* quotient of finite n by finite d # 0, rounded to the nearest grid value
Nearest(n, d) == Sgn(n) * Sgn(d) * ((2 * Abs(n) + Abs(d)) \div (2 * Abs(d)))

FDiv(a, b) ==
    IF IsNaN(a) \/ IsNaN(b) THEN NaN
    ELSE IF IsInf(a)
         THEN (IF IsInf(b) THEN NaN
               ELSE IF (a = PosInf) = (b >= 0) THEN PosInf ELSE NegInf)
    ELSE IF IsInf(b) THEN 0
    ELSE IF b = 0
         THEN (IF a = 0 THEN NaN ELSE IF a > 0 THEN PosInf ELSE NegInf)
    ELSE Nearest(a, b)

RECURSIVE SqrtBetween(_, _, _)
\* the largest r in lo..hi with r*r <= a  (lo*lo <= a < (hi+1)*(hi+1))
SqrtBetween(a, lo, hi) ==
    IF lo >= hi THEN lo
    ELSE LET mid == (lo + hi + 1) \div 2
         IN IF mid <= a \div mid THEN SqrtBetween(a, mid, hi)
            ELSE SqrtBetween(a, lo, mid - 1)

FSqrt(a) ==
    IF IsNaN(a) \/ a = NegInf THEN NaN
    ELSE IF a = PosInf THEN PosInf
    ELSE IF a < 0 THEN NaN
    ELSE IF a = 0 THEN 0
    ELSE SqrtBetween(a, 1, a)

\* vectors are pairs <<x, y>>
VAdd(u, v) == <<FAdd(u[1], v[1]), FAdd(u[2], v[2])>>
VScale(k, v) == <<FMul(k, v[1]), FMul(k, v[2])>>
VDiv(v, k) == <<FDiv(v[1], k), FDiv(v[2], k)>>
VFinite(v) == IsFinite(v[1]) /\ IsFinite(v[2])
Zero == <<0, 0>>

\* np.linalg.norm of a pair
Norm(v) == FSqrt(FAdd(FMul(v[1], v[1]), FMul(v[2], v[2])))

\* 0.5 * v: halving is exact in binary floating point, so it is applied to
\* the product it is part of (0.5 * a * dt is half of a * dt)
VHalf(v) == VDiv(v, 2)

----------------------------------------------------------------------------
(* physics/constants.py, in grid units *)

G == 1
EARTH_MASS == 8

(* physics/orbital_mechanics.py *)

MAX_TRAJECTORY == 1000

\* r ** 2 and r ** 3
Pow2(r) == FMul(r, r)
Pow3(r) == FMul(FMul(r, r), r)

\* variants of calculate_acceleration: inverse-square of the position
\* vector, and no test for r == 0
calculate_acceleration_square(pos) ==
    LET r == Norm(pos)
    IN IF r = 0 THEN Zero
       ELSE VDiv(VScale(FMul(FNeg(G), EARTH_MASS), pos), Pow2(r))

calculate_acceleration_unguarded(pos) ==
    VDiv(VScale(FMul(FNeg(G), EARTH_MASS), pos), Pow3(Norm(pos)))

calculate_acceleration(pos) ==
    LET r == Norm(pos)
    IN IF r = 0 THEN Zero
       ELSE VDiv(VScale(FMul(FNeg(G), EARTH_MASS), pos), Pow3(r))

\* OrbitalBody.__init__; calls counts the invocations of
\* calculate_acceleration on this body
OrbitalBody(position, velocity, mass) ==
    [position |-> position,
     velocity |-> velocity,
     mass |-> mass,
     trajectory |-> <<position>>,
     active |-> TRUE,
     current_force |-> 0,
     acceleration |-> calculate_acceleration(position),
     calls |-> 1]

\* variants of the trajectory limit: never evicting, and evicting the newest
limit_trajectory_keep_all(t) == t

limit_trajectory_drop_newest(t) ==
    IF Len(t) > MAX_TRAJECTORY THEN SubSeq(t, 1, Len(t) - 1) ELSE t

\* "Limit trajectory length"
limit_trajectory(t) == IF Len(t) > MAX_TRAJECTORY THEN Tail(t) ELSE t

\* "Update current force for display purposes"
force_magnitude(mass, pos) ==
    LET r == Norm(pos)
    IN FDiv(FMul(FMul(G, EARTH_MASS), mass), Pow2(r))

\* variants of the step: drifting with the velocity before the half-kick,
\* and an acceleration obtained as force over the body's mass
verlet_drift_first(b, dt) ==
    LET v1 == VAdd(b.velocity, VHalf(VScale(dt, b.acceleration)))
        p1 == VAdd(b.position, VScale(dt, b.velocity))
        a1 == calculate_acceleration(p1)
        v2 == VAdd(v1, VHalf(VScale(dt, a1)))
    IN <<p1, v2, a1>>

verlet_by_mass(b, dt) ==
    LET v1 == VAdd(b.velocity, VHalf(VScale(dt, b.acceleration)))
        p1 == VAdd(b.position, VScale(dt, v1))
        a1 == VDiv(calculate_acceleration(p1), b.mass)
        v2 == VAdd(v1, VHalf(VScale(dt, a1)))
    IN <<p1, v2, a1>>

\* two more variants: the cached acceleration left as it was, and the
\* semi-implicit Euler step (a full kick, then the drift)
verlet_stale_acceleration(b, dt) ==
    LET v1 == VAdd(b.velocity, VHalf(VScale(dt, b.acceleration)))
        p1 == VAdd(b.position, VScale(dt, v1))
        a1 == calculate_acceleration(p1)
        v2 == VAdd(v1, VHalf(VScale(dt, a1)))
    IN <<p1, v2, b.acceleration>>

verlet_euler(b, dt) ==
    LET v1 == VAdd(b.velocity, VScale(dt, calculate_acceleration(b.position)))
        p1 == VAdd(b.position, VScale(dt, v1))
    IN <<p1, v1, calculate_acceleration(p1)>>

\* the Velocity Verlet step of update: <<position, velocity, acceleration>>
verlet(b, dt) ==
    LET v1 == VAdd(b.velocity, VHalf(VScale(dt, b.acceleration)))
        p1 == VAdd(b.position, VScale(dt, v1))
        a1 == calculate_acceleration(p1)
        v2 == VAdd(v1, VHalf(VScale(dt, a1)))
    IN <<p1, v2, a1>>

\* update on an active body: everything after the test of active
step(b, dt) ==
    LET s == verlet(b, dt)
    IN [b EXCEPT !.position = s[1],
                 !.velocity = s[2],
                 !.acceleration = s[3],
                 !.calls = b.calls + 1,
                 !.trajectory = limit_trajectory(Append(b.trajectory, s[1])),
                 !.current_force = force_magnitude(b.mass, s[1])]

\* variants of update: no test of active, and an early return for dt == 0
update_ignoring_active(b, dt) == step(b, dt)

update_skip_zero_dt(b, dt) == IF ~b.active \/ dt = 0 THEN b ELSE step(b, dt)

update(b, dt) == IF ~b.active THEN b ELSE step(b, dt)

----------------------------------------------------------------------------
(* main.py: simulation controls *)

BASE_VELOCITY_CHANGE == 50
MAX_VELOCITY_CHANGE == 2000
\* ACCELERATION_FACTOR = 1.2 as the fraction 12/10
ACCELERATION_FACTOR_NUM == 12
ACCELERATION_FACTOR_DEN == 10
\* time scales in tenths
TIME_SCALE_CHANGE == 5
MIN_TIME_SCALE == 1
MAX_TIME_SCALE == 100
INITIAL_TIME_SCALE == 10
\* TIME_STEP * time_scale, with time_scale in tenths, in grid units of time
TIME_STEP == 1

Min(a, b) == IF a < b THEN a ELSE b
Max(a, b) == IF a > b THEN a ELSE b

\* keys: the held state of the four arrow keys
Keys(u, d, l, r) == [up |-> u, down |-> d, left |-> l, right |-> r]
NoKeys == Keys(FALSE, FALSE, FALSE, FALSE)

\* "Update velocity change based on key state"
next_velocity_change(vc, keys) ==
    IF keys.up \/ keys.down \/ keys.left \/ keys.right
    THEN Min(FDiv(FMul(vc, ACCELERATION_FACTOR_NUM), ACCELERATION_FACTOR_DEN),
             MAX_VELOCITY_CHANGE)
    ELSE BASE_VELOCITY_CHANGE

\* "Apply velocity changes"
apply_velocity_changes(v, vc, keys) ==
    LET y1 == IF keys.up THEN FAdd(v[2], vc) ELSE v[2]
        y2 == IF keys.down THEN FAdd(y1, FNeg(vc)) ELSE y1
        x1 == IF keys.right THEN FAdd(v[1], vc) ELSE v[1]
        x2 == IF keys.left THEN FAdd(x1, FNeg(vc)) ELSE x1
    IN <<x2, y2>>

\* variant of the increase: no clamp
plus_time_scale_unclamped(ts) == ts + TIME_SCALE_CHANGE

plus_time_scale(ts) == Min(MAX_TIME_SCALE, ts + TIME_SCALE_CHANGE)
minus_time_scale(ts) == Max(MIN_TIME_SCALE, ts - TIME_SCALE_CHANGE)

----------------------------------------------------------------------------
(* physics/constants.py: time constants; ui/control_panel.py: ControlPanel *)

SIMULATION_DURATION == 86400
REAL_TIME_DURATION == 60
TIME_SCALE == FDiv(SIMULATION_DURATION, REAL_TIME_DURATION)

\* self.time_scales; Python indexes it from 0
time_scales == <<FDiv(TIME_SCALE, 4), FDiv(TIME_SCALE, 2), TIME_SCALE, FMul(TIME_SCALE, 2)>>
ScaleAt(i) == time_scales[i + 1]

\* ControlPanel.__init__: "Default to 24h in 1min"
DEFAULT_TIME_SCALE_INDEX == 2

ControlPanel ==
    [paused |-> FALSE, current_time_scale_index |-> DEFAULT_TIME_SCALE_INDEX]

_toggle_pause(cp) == [cp EXCEPT !.paused = ~cp.paused]

\* variant of the cycle: wrapping one entry early
_cycle_time_scale_short(cp) ==
    [cp EXCEPT !.current_time_scale_index =
                   (cp.current_time_scale_index + 1) % (Len(time_scales) - 1)]

_cycle_time_scale(cp) ==
    [cp EXCEPT !.current_time_scale_index =
                   (cp.current_time_scale_index + 1) % Len(time_scales)]

get_time_scale(cp) ==
    IF cp.paused THEN 0 ELSE ScaleAt(cp.current_time_scale_index)

\* abs() and < on floats: a comparison with NaN is false
FAbs(a) == IF IsNaN(a) THEN NaN ELSE Abs(a)
FLess(a, b) == ~IsNaN(a) /\ ~IsNaN(b) /\ a < b

RECURSIVE closest_from(_, _, _, _)
\* the loop of set_time_scale from index i on, with closest_index and
\* min_diff as they are before iteration i
closest_from(x, i, closest_index, min_diff) ==
    IF i >= Len(time_scales) THEN closest_index
    ELSE LET diff == FAbs(FAdd(ScaleAt(i), FNeg(x)))
         IN IF FLess(diff, min_diff)
            THEN closest_from(x, i + 1, i, diff)
            ELSE closest_from(x, i + 1, closest_index, min_diff)

RECURSIVE closest_from_le(_, _, _, _)
\* variant of the loop: <= in place of <, so that a tie moves to the later index
closest_from_le(x, i, closest_index, min_diff) ==
    IF i >= Len(time_scales) THEN closest_index
    ELSE LET diff == FAbs(FAdd(ScaleAt(i), FNeg(x)))
         IN IF FLess(diff, min_diff) \/ diff = min_diff
            THEN closest_from_le(x, i + 1, i, diff)
            ELSE closest_from_le(x, i + 1, closest_index, min_diff)

set_time_scale_ties_high(cp, x) ==
    [cp EXCEPT !.current_time_scale_index =
                   closest_from_le(x, 0, 0, FAbs(FAdd(ScaleAt(0), FNeg(x))))]

set_time_scale(cp, x) ==
    [cp EXCEPT !.current_time_scale_index =
                   closest_from(x, 0, 0, FAbs(FAdd(ScaleAt(0), FNeg(x))))]

----------------------------------------------------------------------------
(* Inputs *)

Positions == {<<0, 0>>, <<1, 0>>, <<0, 2>>, <<2, 2>>, <<0 - 3, 1>>}
Velocities == {<<0, 0>>, <<0, 0 - 1>>, <<1, 0 - 1>>}
Masses == {1, 3}
OtherMass(m) == CHOOSE n \in Masses : n # m
DtSet == {0 - 2, 0 - 1, 0, 1, 2}
KeyStates ==
    {NoKeys, Keys(TRUE, FALSE, FALSE, FALSE), Keys(FALSE, FALSE, TRUE, FALSE),
     Keys(FALSE, TRUE, FALSE, TRUE), Keys(TRUE, TRUE, TRUE, TRUE)}

\* arguments of set_time_scale: below, on, between (ties included) and
\* above the four scales, and the special values
ScaleInputs ==
    {0 - 5, 0, 200, 360, 539, 540, 541, 720, 1080, 1440, 2159, 2160, 2161,
     2880, 5000, PosInf, NegInf, NaN}

\* window: the index before each of the latest consecutive cycles, at most 4
PLast(opname, x, cp, window) == [op |-> opname, x |-> x, pre |-> cp, window |-> window]

Last(opname, dt, b) == [op |-> opname, dt |-> dt, pre |-> b, ts |-> time_scale]

----------------------------------------------------------------------------
(* The library: a body constructed from any input, then any sequence of    *)
(* update(dt), changes of active, and arrow-key velocity adjustments.      *)
(* twin is built from the same position and velocity with another mass and *)
(* is driven by the same operations.                                       *)

Init ==
    /\ \E p \in Positions, v \in Velocities, m \in Masses :
          /\ sat = OrbitalBody(p, v, m)
          /\ twin = OrbitalBody(p, v, OtherMass(m))
    /\ time_scale = INITIAL_TIME_SCALE
    /\ velocity_change = BASE_VELOCITY_CHANGE
    /\ last = Last("init", 0, sat)
    /\ hist = <<sat.position>>
    /\ steps = 0
    /\ before = last
    /\ panel = ControlPanel
    /\ plast = PLast("init", 0, panel, <<>>)

Update(dt) ==
    /\ steps < MaxSteps
    /\ sat' = update(sat, dt)
    /\ twin' = update(twin, dt)
    /\ last' = Last("update", dt, sat)
    /\ hist' = IF sat.active THEN Append(hist, sat'.position) ELSE hist
    /\ steps' = steps + 1
    /\ UNCHANGED <<time_scale, velocity_change>>
    /\ UNCHANGED others

SetActive(a) ==
    /\ steps < MaxSteps
    /\ sat.active # a
    /\ sat' = [sat EXCEPT !.active = a]
    /\ twin' = [twin EXCEPT !.active = a]
    /\ last' = Last("active", 0, sat)
    /\ steps' = steps + 1
    /\ UNCHANGED <<time_scale, velocity_change, hist>>
    /\ UNCHANGED others

AdjustVelocity(keys) ==
    /\ steps < MaxSteps
    /\ velocity_change' = next_velocity_change(velocity_change, keys)
    /\ sat' = [sat EXCEPT !.velocity =
                   apply_velocity_changes(sat.velocity, velocity_change', keys)]
    /\ twin' = [twin EXCEPT !.velocity =
                    apply_velocity_changes(twin.velocity, velocity_change', keys)]
    /\ last' = Last("adjust", 0, sat)
    /\ steps' = steps + 1
    /\ UNCHANGED <<time_scale, hist>>
    /\ UNCHANGED others

Next ==
    \/ \E dt \in DtSet : Update(dt)
    \/ \E a \in BOOLEAN : SetActive(a)
    \/ \E keys \in KeyStates : AdjustVelocity(keys)

Spec == Init /\ [][Next]_vars

TypeInv ==
    /\ sat.active \in BOOLEAN
    /\ Len(sat.trajectory) >= 1
    /\ steps >= 0

----------------------------------------------------------------------------
(* main(): the satellite of main.py, key events for the time scale, and    *)
(* one frame of the loop (arrow keys, then satellite.update).              *)

\* main(): initial_position, initial_velocity, and the default mass, in grid units
EARTH_RADIUS == 6
INITIAL_ALTITUDE == 10
INITIAL_SPEED == 1
DEFAULT_MASS == 1

InitMain ==
    /\ sat = OrbitalBody(<<0, EARTH_RADIUS + INITIAL_ALTITUDE>>,
                         <<INITIAL_SPEED, 0>>, DEFAULT_MASS)
    /\ twin = sat
    /\ time_scale = INITIAL_TIME_SCALE
    /\ velocity_change = BASE_VELOCITY_CHANGE
    /\ last = Last("init", 0, sat)
    /\ hist = <<sat.position>>
    /\ steps = 0
    /\ before = last
    /\ panel = ControlPanel
    /\ plast = PLast("init", 0, panel, <<>>)

KeyPlus ==
    /\ time_scale' = plus_time_scale(time_scale)
    /\ last' = [last EXCEPT !.op = "plus", !.ts = time_scale]
    /\ UNCHANGED <<sat, twin, velocity_change, hist, steps>>
    /\ UNCHANGED others

KeyMinus ==
    /\ time_scale' = minus_time_scale(time_scale)
    /\ last' = [last EXCEPT !.op = "minus", !.ts = time_scale]
    /\ UNCHANGED <<sat, twin, velocity_change, hist, steps>>
    /\ UNCHANGED others

\* the loop body after event handling
FrameStep(keys) ==
    LET vc == next_velocity_change(velocity_change, keys)
        adjusted == [sat EXCEPT !.velocity =
                         apply_velocity_changes(sat.velocity, vc, keys)]
        dt == FMul(TIME_STEP, time_scale)
    IN /\ velocity_change' = vc
       /\ sat' = update(adjusted, dt)
       /\ last' = Last("frame", dt, adjusted)
       /\ hist' = IF sat.active THEN Append(hist, sat'.position) ELSE hist
       /\ steps' = steps + 1
       /\ UNCHANGED <<twin, time_scale>>
       /\ UNCHANGED others

Frame(keys) ==
    /\ steps < MaxFrames
    /\ FrameStep(keys)

NextMain ==
    \/ KeyPlus
    \/ KeyMinus
    \/ \E keys \in KeyStates : Frame(keys)

SpecMain == InitMain /\ [][NextMain]_vars

----------------------------------------------------------------------------
(* Long runs: bodies driven by the loop with no key held, for more frames  *)
(* than the trajectory holds.                                              *)

LongScales == {MIN_TIME_SCALE, INITIAL_TIME_SCALE}

InitLong ==
    /\ \E p \in Positions, v \in Velocities :
          /\ sat = OrbitalBody(p, v, DEFAULT_MASS)
          /\ twin = sat
    /\ time_scale \in LongScales
    /\ velocity_change = BASE_VELOCITY_CHANGE
    /\ last = Last("init", 0, sat)
    /\ hist = <<sat.position>>
    /\ steps = 0
    /\ before = last
    /\ panel = ControlPanel
    /\ plast = PLast("init", 0, panel, <<>>)

LongFrame ==
    /\ steps < LongSteps
    /\ FrameStep(NoKeys)

NextLong == LongFrame

SpecLong == InitLong /\ [][NextLong]_vars

----------------------------------------------------------------------------
(* The control panel and the loop that reads its time scale.  The loop of  *)
(* the panel variant is not among the sources; PanelFrame follows the      *)
(* specification's account of it: effective_dt = base_dt * time_scale, and *)
(* update still runs, with dt = 0, while the panel is paused.              *)

\* the number of scales the speed button cycles through
CycleLength == Len(time_scales)

TogglePause ==
    /\ panel' = _toggle_pause(panel)
    /\ plast' = PLast("toggle", 0, panel, <<>>)
    /\ UNCHANGED <<sat, twin, time_scale, velocity_change, last, hist, steps, before>>

CycleTimeScale ==
    /\ panel' = _cycle_time_scale(panel)
    /\ plast' = PLast("cycle", 0, panel,
                     LET w == Append(plast.window, panel.current_time_scale_index)
                     IN IF Len(w) > CycleLength THEN Tail(w) ELSE w)
    /\ UNCHANGED <<sat, twin, time_scale, velocity_change, last, hist, steps, before>>

SetTimeScale(x) ==
    /\ panel' = set_time_scale(panel, x)
    /\ plast' = PLast("set", x, panel, <<>>)
    /\ UNCHANGED <<sat, twin, time_scale, velocity_change, last, hist, steps, before>>

PanelFrame ==
    LET dt == FMul(TIME_STEP, get_time_scale(panel))
    IN /\ steps < MaxFrames
       /\ sat' = update(sat, dt)
       /\ last' = Last("panelframe", dt, sat)
       /\ hist' = IF sat.active THEN Append(hist, sat'.position) ELSE hist
       /\ steps' = steps + 1
       /\ plast' = PLast("frame", 0, panel, <<>>)
       /\ UNCHANGED <<twin, time_scale, velocity_change, before, panel>>

NextPanel ==
    \/ TogglePause
    \/ CycleTimeScale
    \/ \E x \in ScaleInputs : SetTimeScale(x)
    \/ PanelFrame

SpecPanel == InitMain /\ [][NextPanel]_vars

----------------------------------------------------------------------------
(* Pairs of calls: the library's update and velocity adjustment, with the  *)
(* operation before the last one kept in before.                           *)

TrackedUpdate(dt) ==
    /\ steps < MaxSteps
    /\ sat' = update(sat, dt)
    /\ last' = Last("update", dt, sat)
    /\ before' = last
    /\ hist' = IF sat.active THEN Append(hist, sat'.position) ELSE hist
    /\ steps' = steps + 1
    /\ UNCHANGED <<twin, time_scale, velocity_change, panel, plast>>

TrackedAdjust(keys) ==
    /\ steps < MaxSteps
    /\ velocity_change' = next_velocity_change(velocity_change, keys)
    /\ sat' = [sat EXCEPT !.velocity =
                   apply_velocity_changes(sat.velocity, velocity_change', keys)]
    /\ last' = Last("adjust", 0, sat)
    /\ before' = last
    /\ steps' = steps + 1
    /\ UNCHANGED <<twin, time_scale, hist, panel, plast>>

NextPairs ==
    \/ \E dt \in DtSet : TrackedUpdate(dt)
    \/ \E keys \in KeyStates : TrackedAdjust(keys)

SpecPairs == Init /\ [][NextPairs]_vars

----------------------------------------------------------------------------
(* Properties *)

Updated == last.op = "update" /\ last.pre.active

\* C1: the trajectory of a body holds between 1 and 1000 positions in every
\* state, after construction and after every update, however many updates
\* are applied.
C1_TrajectoryBounded ==
    /\ Len(sat.trajectory) >= 1
    /\ Len(sat.trajectory) <= MAX_TRAJECTORY

\* more than 2000 updates applied, the trajectory full
C1_Witness ==
    /\ steps > 2 * MAX_TRAJECTORY
    /\ last.op = "frame"
    /\ Len(sat.trajectory) = MAX_TRAJECTORY

\* C2: update on a body with active == False changes nothing: position,
\* velocity, acceleration, current_force and trajectory are as before and
\* calculate_acceleration is not invoked, for every dt.
C2_InactiveNoOp ==
    (last.op = "update" /\ ~last.pre.active) =>
        /\ sat.position = last.pre.position
        /\ sat.velocity = last.pre.velocity
        /\ sat.acceleration = last.pre.acceleration
        /\ sat.current_force = last.pre.current_force
        /\ sat.trajectory = last.pre.trajectory
        /\ sat.calls = last.pre.calls

\* an inactive body with a velocity and an acceleration, updated with dt # 0
C2_Witness ==
    /\ last.op = "update"
    /\ ~last.pre.active
    /\ last.dt # 0
    /\ last.pre.velocity # Zero
    /\ last.pre.acceleration # Zero

\* C3: after k updates of an active body the trajectory is the last
\* min(k+1, 1000) of the positions p0, p1, ..., pk the body has had, oldest
\* first; p0 is the first one evicted.
C3_TrajectoryIsRecentHistory ==
    LET n == Len(hist)
        m == Min(n, MAX_TRAJECTORY)
    IN /\ n = steps + 1
       /\ n <= MAX_TRAJECTORY => sat.trajectory[1] = hist[1]
       /\ Len(sat.trajectory) = m
       /\ \A i \in 1..m : sat.trajectory[i] = hist[n - m + i]

\* positions have been evicted and the oldest one kept differs from p0
C3_Witness ==
    /\ Len(hist) > MAX_TRAJECTORY + 1
    /\ sat.trajectory[1] # hist[1]
    /\ sat.trajectory[1] = hist[Len(hist) - MAX_TRAJECTORY + 1]
    /\ sat.trajectory[1] # sat.trajectory[2]

\* C4: one update(dt) of an active body is the Velocity Verlet step: a
\* half-kick of the velocity with the cached acceleration, a drift of the
\* position with the half-kicked velocity, the acceleration of the new
\* position, a second half-kick with it, and that acceleration cached.  With
\* an even dt no rounding is involved and the step is exact.
C4_VelocityVerlet ==
    Updated =>
        LET b == last.pre
            dt == last.dt
            vhalf == VAdd(b.velocity, VHalf(VScale(dt, b.acceleration)))
            a_new == calculate_acceleration(sat.position)
        IN /\ sat.position = VAdd(b.position, VScale(dt, vhalf))
           /\ sat.acceleration = a_new
           /\ sat.velocity = VAdd(vhalf, VHalf(VScale(dt, a_new)))
           /\ sat.calls = b.calls + 1
           /\ (dt % 2 = 0 /\ VFinite(sat.position) /\ VFinite(sat.velocity)) =>
                 \A i \in 1..2 :
                    /\ sat.position[i] = b.position[i]
                          + dt * (b.velocity[i] + (dt \div 2) * b.acceleration[i])
                    /\ sat.velocity[i] = b.velocity[i]
                          + (dt \div 2) * (b.acceleration[i] + sat.acceleration[i])

\* a step in which both half-kicks and the drift change something
C4_Witness ==
    /\ Updated
    /\ last.dt # 0
    /\ last.pre.velocity # Zero
    /\ last.pre.acceleration # Zero
    /\ sat.acceleration # Zero
    /\ sat.acceleration # last.pre.acceleration
    /\ sat.position # VAdd(last.pre.position, VScale(last.dt, last.pre.velocity))

\* the norm of a position, stated by squaring: r*r <= x*x + y*y < (r+1)*(r+1)
FloorNorm(p) ==
    LET n == p[1] * p[1] + p[2] * p[2]
    IN CHOOSE r \in 0..(Abs(p[1]) + Abs(p[2])) : r * r <= n /\ n < (r + 1) * (r + 1)

\* positions whose norm and its cube are computed without overflow
InRange(p) == VFinite(p) /\ Abs(p[1]) + Abs(p[2]) <= 100

\* C5: the acceleration computed for the origin is the zero vector, neither
\* NaN nor infinite; for any other position it is -G * EARTH_MASS * pos / r^3
\* (here: finite, and the grid value nearest to that quotient).
C5_AccelerationLaw ==
    (last.op = "init" \/ Updated) =>
        LET p == sat.position
            a == sat.acceleration
        IN IF p = Zero THEN a = Zero
           ELSE InRange(p) =>
                  LET r == FloorNorm(p)
                      r3 == r * r * r
                  IN \A i \in 1..2 :
                        /\ IsFinite(a[i])
                        /\ Abs(a[i]) <= G * EARTH_MASS * Abs(p[i])
                        /\ 2 * Abs(a[i] * r3 + G * EARTH_MASS * p[i]) <= r3

\* the acceleration of the origin, computed by an update that drifted there
C5_Witness ==
    /\ Updated
    /\ last.pre.position # Zero
    /\ last.pre.acceleration # Zero
    /\ sat.position = Zero
    /\ sat.acceleration = Zero

\* C6: an update of an active body that leaves the position at the origin
\* divides by zero nowhere: the acceleration and the current_force it stores
\* are finite.
C6_OriginUpdateFinite ==
    (Updated /\ sat.position = Zero) =>
        /\ VFinite(sat.acceleration)
        /\ IsFinite(sat.current_force)

\* C7, as claimed: update(0) on an active body leaves position, velocity and
\* trajectory as they were.
C7_ZeroDtNoOp ==
    (Updated /\ last.dt = 0) =>
        /\ sat.position = last.pre.position
        /\ sat.velocity = last.pre.velocity
        /\ sat.trajectory = last.pre.trajectory

\* C7, amended: update(0) on an active body leaves position and velocity as
\* they were and appends one more copy of the position to the trajectory
\* (the oldest entry leaving a full trajectory).
C7_ZeroDtAppendsDuplicate ==
    (Updated /\ last.dt = 0) =>
        LET t == last.pre.trajectory
        IN /\ sat.position = last.pre.position
           /\ sat.velocity = last.pre.velocity
           /\ sat.trajectory =
                 IF Len(t) < MAX_TRAJECTORY
                 THEN t \o <<last.pre.position>>
                 ELSE Tail(t) \o <<last.pre.position>>

\* update(0) on a moving, accelerated body
C7_Witness ==
    /\ Updated
    /\ last.dt = 0
    /\ last.pre.velocity # Zero
    /\ last.pre.acceleration # Zero
    /\ Len(sat.trajectory) = Len(last.pre.trajectory) + 1

\* C8, as claimed: the position of a body is never the origin.
C8_NeverAtOrigin == sat.position # Zero

\* C8, amended: a body can be at the origin (constructed there, or drifted
\* there by an update); whenever it is, its cached acceleration is the zero
\* vector.
C8_OriginHasZeroAcceleration == sat.position = Zero => sat.acceleration = Zero

\* a body that started elsewhere, drifted onto the origin and then had its
\* velocity adjusted
C8_Witness ==
    /\ last.op = "adjust"
    /\ sat.position = Zero
    /\ hist[1] # Zero
    /\ sat.velocity # last.pre.velocity

\* C9: two bodies built from the same position and velocity with different
\* masses and driven by the same operations agree on position, velocity,
\* acceleration and trajectory in every state.
C9_MassDoesNotMove ==
    /\ sat.mass # twin.mass
    /\ sat.position = twin.position
    /\ sat.velocity = twin.velocity
    /\ sat.acceleration = twin.acceleration
    /\ sat.trajectory = twin.trajectory

\* two updates in, the bodies agree although the forces on them differ
C9_Witness ==
    /\ Updated
    /\ last.dt # 0
    /\ Len(sat.trajectory) >= 3
    /\ sat.acceleration # Zero
    /\ sat.current_force # twin.current_force

\* C10: the time scale of the main loop stays within [MIN_TIME_SCALE,
\* MAX_TIME_SCALE]; a plus key adds 0.5 and a minus key subtracts 0.5 unless
\* that would leave the range, and at a bound the key leaves it at the bound.
C10_TimeScaleClamped ==
    /\ time_scale >= MIN_TIME_SCALE
    /\ time_scale <= MAX_TIME_SCALE
    /\ last.op = "plus" =>
          /\ time_scale = last.ts + TIME_SCALE_CHANGE \/ time_scale = MAX_TIME_SCALE
          /\ last.ts = MAX_TIME_SCALE => time_scale = MAX_TIME_SCALE
    /\ last.op = "minus" =>
          /\ time_scale = last.ts - TIME_SCALE_CHANGE \/ time_scale = MIN_TIME_SCALE
          /\ last.ts = MIN_TIME_SCALE => time_scale = MIN_TIME_SCALE

\* a plus key pressed with the time scale already at 10.0
C10_Witness ==
    /\ last.op = "plus"
    /\ last.ts = MAX_TIME_SCALE
    /\ time_scale = MAX_TIME_SCALE

PanelScales == {TIME_SCALE \div 4, TIME_SCALE \div 2, TIME_SCALE, TIME_SCALE * 2}

\* C12: after any sequence of panel operations the index is in 0..3,
\* get_time_scale is 0 exactly when paused and otherwise one of the four
\* scales; a toggle of pause keeps the index, and four consecutive cycles
\* come back to the index they started from.
C12_PanelWellFormed ==
    /\ panel.current_time_scale_index \in 0..3
    /\ panel.paused \in BOOLEAN
    /\ (get_time_scale(panel) = 0) <=> panel.paused
    /\ ~panel.paused => get_time_scale(panel) \in PanelScales
    /\ Cardinality(PanelScales) = 4
    /\ plast.op = "toggle" =>
          /\ panel.current_time_scale_index = plast.pre.current_time_scale_index
          /\ panel.paused = ~plast.pre.paused
    /\ plast.op = "cycle" =>
          /\ panel.current_time_scale_index # plast.pre.current_time_scale_index
          /\ panel.paused = plast.pre.paused
    /\ Len(plast.window) = 4 =>
          panel.current_time_scale_index = plast.window[1]

\* four consecutive cycles on a paused panel that was set away from the default
C12_Witness ==
    /\ plast.op = "cycle"
    /\ Len(plast.window) = 4
    /\ panel.paused
    /\ panel.current_time_scale_index # DEFAULT_TIME_SCALE_INDEX

\* |time_scales[i] - x|
ScaleDiff(i, x) == FAbs(FAdd(ScaleAt(i), FNeg(x)))

\* C13: set_time_scale(x) selects an index whose scale is nearest to x, the
\* lowest such index on a tie, for x below, between and above the scales
\* (any x that is a number), and leaves paused as it was.
C13_SetTimeScaleNearest ==
    (plast.op = "set" /\ ~IsNaN(plast.x)) =>
        LET i == panel.current_time_scale_index
        IN /\ i \in 0..3
           /\ \A j \in 0..3 : ScaleDiff(i, plast.x) <= ScaleDiff(j, plast.x)
           /\ \A j \in 0..3 : j < i => ScaleDiff(j, plast.x) > ScaleDiff(i, plast.x)
           /\ panel.paused = plast.pre.paused

\* an argument half way between two scales, on a paused panel
C13_Witness ==
    /\ plast.op = "set"
    /\ plast.x = 1080
    /\ ScaleDiff(1, plast.x) = ScaleDiff(2, plast.x)
    /\ panel.current_time_scale_index = 1
    /\ plast.pre.current_time_scale_index = 3
    /\ panel.paused

\* C14: in every state reached by construction, updates, changes of active
\* and arrow-key velocity adjustments, the cached acceleration is the
\* acceleration of the current position, so the first half-kick of the next
\* update uses the acceleration of the position it starts from.
C14_CachedAccelerationCurrent ==
    /\ sat.acceleration = calculate_acceleration(sat.position)
    /\ Updated => last.pre.acceleration = calculate_acceleration(last.pre.position)

\* an update that follows an arrow-key adjustment and an earlier update
C14_Witness ==
    /\ Updated
    /\ last.dt # 0
    /\ Len(hist) = 3
    /\ velocity_change # BASE_VELOCITY_CHANGE
    /\ sat.acceleration # Zero
    /\ sat.acceleration # last.pre.acceleration

\* update(dt) directly followed by update(-dt), both on an active body
Reversed ==
    /\ last.op = "update"
    /\ before.op = "update"
    /\ last.pre.active
    /\ before.pre.active
    /\ last.dt = 0 - before.dt

\* C15: update(dt) followed immediately by update(-dt) on an active body
\* restores position, velocity and cached acceleration; the trajectory has
\* the two positions appended (the last one the restored position), limited
\* to its latest 1000 entries.
C15_NegativeDtReverses ==
    Reversed =>
        LET b == before.pre
            t == b.trajectory \o <<last.pre.position, b.position>>
        IN /\ sat.position = b.position
           /\ sat.velocity = b.velocity
           /\ sat.acceleration = b.acceleration
           /\ sat.trajectory[Len(sat.trajectory)] = b.position
           /\ sat.trajectory =
                 IF Len(t) <= MAX_TRAJECTORY THEN t
                 ELSE SubSeq(t, Len(t) - MAX_TRAJECTORY + 1, Len(t))

\* a step forth and back that moved the body and changed its velocity and
\* acceleration in between
C15_Witness ==
    /\ Reversed
    /\ last.dt # 0
    /\ last.pre.position # sat.position
    /\ last.pre.velocity # sat.velocity
    /\ last.pre.acceleration # sat.acceleration
    /\ sat.acceleration # Zero

====
